---- MODULE Spec2Model ----
(***************************************************************************)
(* A model of the rosdep.yaml automation of haru-project/rosdistro:        *)
(* scripts/rosdep_updater.py (the configuration reconciler),               *)
(* scripts/package_analyzer.py, scripts/github_api.py and scripts/main.py. *)
(*                                                                         *)
(* Text is modelled as a sequence of tokens: a file is a sequence of line  *)
(* tokens and newline tokens, a name is a sequence of characters, and a    *)
(* distribution identifier is a sequence of chunks whose first chunk is    *)
(* its prefix.  YAML values are tagged records.                            *)
(***************************************************************************)
EXTENDS Integers, Sequences, FiniteSets, TLC

\* ------------------------------------------------------------------ bounds

\* Longest list of discovered packages handed to one update.
MaxPkgs == 2
\* Runs start only while the configuration file holds at most this many tokens.
MaxFileLen == 9
\* Saves one ROSDepUpdater object performs.
MaxSaves == 1
\* The repositories of the organization.
MaxRepos == 2
\* Longest list handed to get_unique_packages.
MaxDup == 3

\* ------------------------------------------------------------- YAML values

YStr(s) == [ty |-> "str", s |-> s]
YInt(n) == [ty |-> "int", n |-> n]
YNull == [ty |-> "null"]
YList(items) == [ty |-> "list", items |-> items]
YMap(m) == [ty |-> "map", m |-> m]
EmptyFcn == [k \in {} |-> YNull]
EmptyDoc == YMap(EmptyFcn)

\* The function f extended (or overwritten) at key k.
Put(f, k, v) == [x \in (DOMAIN f) \cup {k} |-> IF x = k THEN v ELSE f[x]]

\* Python truthiness of a loaded value (None, 0, "", [] and {} are falsy).
Truthy(v) ==
    CASE v.ty = "null" -> FALSE
      [] v.ty = "int" -> v.n # 0
      [] v.ty = "str" -> v.s # <<>>
      [] v.ty = "list" -> v.items # <<>>
      [] v.ty = "map" -> DOMAIN v.m # {}

\* ------------------------------------------------------------------- names

\* Code points of the characters names are written with.
CharRank(c) ==
    CASE c = "-" -> 45
      [] c = "_" -> 95
      [] c = "a" -> 97
      [] c = "b" -> 98

RECURSIVE LexLess(_, _)
\* Python's str order: s < t, character by character.
LexLess(s, t) ==
    IF t = <<>> THEN FALSE
    ELSE IF s = <<>> THEN TRUE
    ELSE IF Head(s) = Head(t) THEN LexLess(Tail(s), Tail(t))
    ELSE CharRank(Head(s)) < CharRank(Head(t))

RECURSIVE SortedSeq(_)
\* sorted(S): the names of S in ascending order.
SortedSeq(S) ==
    IF S = {} THEN <<>>
    ELSE LET lo == CHOOSE x \in S : \A y \in S \ {x} : LexLess(x, y)
         IN <<lo>> \o SortedSeq(S \ {lo})

RECURSIVE IsSubstring(_, _)
\* Python's `s in t` for two strings.
IsSubstring(s, t) ==
    \/ (Len(s) <= Len(t) /\ SubSeq(t, 1, Len(s)) = s)
    \/ (t # <<>> /\ IsSubstring(s, Tail(t)))

NameA == <<"a">>
NameB == <<"b">>
NameAB == <<"a", "_", "b">>
PkgNames == {NameA, NameB, NameAB}
RepoAlpha == <<"a">>
Repos == {RepoAlpha}

\* ------------------------------------------------------------ ROSPackage

\* A conversion that leaves the underscores.
ConvertToDebianNameKeeping(package_name) == package_name

RECURSIVE ConvertToDebianName(_)
ConvertToDebianName(package_name) ==
    IF package_name = <<>> THEN <<>>
    ELSE <<IF Head(package_name) = "_" THEN "-" ELSE Head(package_name)>>
         \o ConvertToDebianName(Tail(package_name))

ROSPackage(name, repository) == [name |-> name, repository |-> repository]

GetRosdepEntries(pkg) ==
    LET debian_name == ConvertToDebianName(pkg.name)
    IN YMap([c \in {"jammy", "noble"} |->
              IF c = "jammy"
              THEN YList(<<YStr(<<"ros-", "humble-">> \o debian_name)>>)
              ELSE YList(<<YStr(<<"ros-", "jazzy-">> \o debian_name),
                           YStr(<<"ros-", "kilted-">> \o debian_name)>>)])

\* --------------------------------------------------------------- the files

NoFile == [ex |-> FALSE, toks |-> <<>>]
File(toks) == [ex |-> TRUE, toks |-> toks]

NL == [t |-> "nl"]
Junk == [t |-> "junk"]
Flow == [t |-> "flow"]
Entry(k, v) == [t |-> "entry", k |-> k, v |-> v]
Item(v) == [t |-> "item", v |-> v]
Scalar(v) == [t |-> "scalar", v |-> v]

IsPrefix(s, t) == Len(s) <= Len(t) /\ SubSeq(t, 1, Len(s)) = s

RECURSIVE DumpEntries(_, _)
DumpEntries(keys, m) ==
    IF keys = <<>> THEN <<>>
    ELSE <<Entry(Head(keys), m[Head(keys)]), NL>> \o DumpEntries(Tail(keys), m)

\* yaml.dump of a value in block style: a mapping's entries in the order of
\* its sorted keys, each ending its line; the empty mapping is "{}".
YamlDump(v) ==
    CASE v.ty = "map" ->
           IF DOMAIN v.m = {} THEN <<Flow, NL>>
           ELSE DumpEntries(SortedSeq(DOMAIN v.m), v.m)
      [] v.ty = "list" ->
           IF v.items = <<>> THEN <<Flow, NL>>
           ELSE [i \in 1..(2 * Len(v.items)) |->
                   IF i % 2 = 1 THEN Item(v.items[(i + 1) \div 2]) ELSE NL]
      [] OTHER -> <<Scalar(v), NL>>

RECURSIVE SplitLines(_, _)
\* The lines of a text: the runs of tokens between newlines.
SplitLines(toks, cur) ==
    IF toks = <<>> THEN (IF cur = <<>> THEN <<>> ELSE <<cur>>)
    ELSE IF Head(toks) = NL THEN <<cur>> \o SplitLines(Tail(toks), <<>>)
    ELSE SplitLines(Tail(toks), Append(cur, Head(toks)))

RECURSIVE FoldEntries(_, _)
\* A block mapping read entry by entry: a repeated key keeps its last value.
FoldEntries(lines, m) ==
    IF lines = <<>> THEN m
    ELSE FoldEntries(Tail(lines), Put(m, Head(lines)[1].k, Head(lines)[1].v))

ParseError == [ty |-> "error"]

\* yaml.safe_load of a text: None for a text with no content, the mapping,
\* sequence or scalar it holds, or a YAMLError.
YamlLoad(toks) ==
    LET NonBlank(l) == l # <<>>
        Kinds(lines) == {lines[i][1].t : i \in 1..Len(lines)}
        Compose(lines, kinds) ==
            IF kinds = {"entry"} THEN YMap(FoldEntries(lines, EmptyFcn))
            ELSE IF kinds = {"item"} THEN YList([i \in 1..Len(lines) |-> lines[i][1].v])
            ELSE IF kinds = {"flow"} /\ Len(lines) = 1 THEN EmptyDoc
            ELSE IF kinds = {"scalar"} /\ Len(lines) = 1 THEN lines[1][1].v
            ELSE ParseError
        Parse(lines) ==
            IF lines = <<>> THEN YNull
            ELSE IF \E i \in 1..Len(lines) : Len(lines[i]) # 1 THEN ParseError
            ELSE Compose(lines, Kinds(lines))
    IN Parse(SelectSeq(SplitLines(toks, <<>>), NonBlank))

\* ------------------------------------------------------------ ROSDepUpdater

\* load_rosdep_file: the document a new ROSDepUpdater holds.  A missing file
\* and a YAMLError give {}; so does a falsy value (`or {}`); a number is
\* assigned, then len() raises TypeError and the last handler resets to {}.
LoadRosdepFile(file) ==
    LET Loaded(v) ==
            IF v = ParseError THEN EmptyDoc
            ELSE IF ~Truthy(v) THEN EmptyDoc
            ELSE IF v.ty = "int" THEN EmptyDoc
            ELSE v
    IN IF ~file.ex THEN EmptyDoc ELSE Loaded(YamlLoad(file.toks))

\* get_existing_packages: set(rosdep_data.keys()) if rosdep_data else set().
\* A non-empty list or string has no keys(): AttributeError.
GetExistingPackages(doc) ==
    IF ~Truthy(doc) THEN [raised |-> FALSE, keys |-> {}]
    ELSE IF doc.ty = "map" THEN [raised |-> FALSE, keys |-> DOMAIN doc.m]
    ELSE [raised |-> TRUE, keys |-> {}]

RECURSIVE SplitWords(_, _)
\* str.split(): the maximal runs of non-blank characters.
SplitWords(s, cur) ==
    IF s = <<>> THEN (IF cur = <<>> THEN {} ELSE {cur})
    ELSE IF Head(s) = " "
         THEN (IF cur = <<>> THEN {} ELSE {cur}) \cup SplitWords(Tail(s), <<>>)
         ELSE SplitWords(Tail(s), Append(cur, Head(s)))

RECURSIVE LStrip(_)
LStrip(s) == IF s # <<>> /\ Head(s) = " " THEN LStrip(Tail(s)) ELSE s

RECURSIVE RStrip(_)
RStrip(s) ==
    IF s # <<>> /\ s[Len(s)] = " " THEN RStrip(SubSeq(s, 1, Len(s) - 1)) ELSE s

Strip(s) == RStrip(LStrip(s))

\* get_manual_packages: the words of MANUAL_ENTRIES (commas read as blanks)
\* and the stripped lines of the sidecar file that are neither blank nor
\* start with '#'.
GetManualPackages(env_value, manual_file) ==
    LET replaced == [i \in 1..Len(env_value) |->
                       IF env_value[i] = "," THEN " " ELSE env_value[i]]
        from_env == SplitWords(replaced, <<>>)
        stripped == {Strip(manual_file.lines[i]) : i \in 1..Len(manual_file.lines)}
        from_file == IF manual_file.ex
                     THEN {l \in stripped : l # <<>> /\ Head(l) # "#"}
                     ELSE {}
    IN from_env \cup from_file

\* A validation that does not look at the type of a codename's value.
EntryValidLax(package_data) ==
    /\ package_data.ty = "map"
    /\ "ubuntu" \in DOMAIN package_data.m
    /\ package_data.m["ubuntu"].ty \in {"list", "map"}

\* One entry's part of validate_yaml_syntax (lines 106-133).
EntryValid(package_data) ==
    /\ package_data.ty = "map"
    /\ "ubuntu" \in DOMAIN package_data.m
    /\ LET ubuntu_data == package_data.m["ubuntu"]
           AllStr(l) == \A i \in 1..Len(l.items) : l.items[i].ty = "str"
       IN CASE ubuntu_data.ty = "list" -> AllStr(ubuntu_data)
            [] ubuntu_data.ty = "map" ->
                 \A distro \in DOMAIN ubuntu_data.m :
                    /\ ubuntu_data.m[distro].ty = "list"
                    /\ AllStr(ubuntu_data.m[distro])
            [] OTHER -> FALSE

\* validate_yaml_syntax: the data is dumped and loaded again, and what was
\* loaded must be a mapping of valid entries.
ValidateYamlSyntax(yaml_data) ==
    LET Valid(parsed_data) ==
            /\ parsed_data # ParseError
            /\ parsed_data.ty = "map"
            /\ \A package_name \in DOMAIN parsed_data.m :
                  EntryValid(parsed_data.m[package_name])
    IN Valid(YamlLoad(YamlDump(yaml_data)))

\* `package_name in self.rosdep_data` for a mapping, a list or a string.
Contains(doc, package_name) ==
    CASE doc.ty = "map" -> package_name \in DOMAIN doc.m
      [] doc.ty = "list" ->
           \E i \in 1..Len(doc.items) : doc.items[i] = YStr(package_name)
      [] doc.ty = "str" -> IsSubstring(package_name, doc.s)

\* An add_ros_package that lets force_update overwrite an existing entry.
AddRosPackageForced(doc, ros_package, force_update) ==
    IF Contains(doc, ros_package.name) /\ ~force_update
    THEN [doc |-> doc, ret |-> FALSE, raised |-> FALSE]
    ELSE IF doc.ty # "map"
    THEN [doc |-> doc, ret |-> FALSE, raised |-> TRUE]
    ELSE [doc |-> YMap(Put(doc.m, ros_package.name,
                           YMap([k \in {"ubuntu"} |-> GetRosdepEntries(ros_package)]))),
          ret |-> TRUE, raised |-> FALSE]

\* An add_ros_package that starts the document afresh with the new entry.
AddRosPackageReplacing(doc, ros_package, force_update) ==
    IF Contains(doc, ros_package.name)
    THEN [doc |-> doc, ret |-> FALSE, raised |-> FALSE]
    ELSE IF doc.ty # "map"
    THEN [doc |-> doc, ret |-> FALSE, raised |-> TRUE]
    ELSE [doc |-> YMap([k \in {ros_package.name} |->
                           YMap([u \in {"ubuntu"} |-> GetRosdepEntries(ros_package)])]),
          ret |-> TRUE, raised |-> FALSE]

\* add_ros_package: an existing name is refused whatever force_update says;
\* a new one gets its synthesized entry.  Item assignment on a list or a
\* string raises TypeError.
AddRosPackage(doc, ros_package, force_update) ==
    IF Contains(doc, ros_package.name)
    THEN [doc |-> doc, ret |-> FALSE, raised |-> FALSE]
    ELSE IF doc.ty # "map"
    THEN [doc |-> doc, ret |-> FALSE, raised |-> TRUE]
    ELSE [doc |-> YMap(Put(doc.m, ros_package.name,
                           YMap([k \in {"ubuntu"} |-> GetRosdepEntries(ros_package)]))),
          ret |-> TRUE, raised |-> FALSE]

RECURSIVE AddMultiplePackages(_, _, _)
\* add_multiple_packages: every record in turn; an exception skips the record.
\* rets lists what add_ros_package returned for each record.
AddMultiplePackages(doc, packages, force_update) ==
    IF packages = <<>> THEN [doc |-> doc, added_count |-> 0, rets |-> <<>>]
    ELSE LET Count(one, rest) ==
                 [doc |-> rest.doc,
                  added_count |-> rest.added_count + (IF one.ret THEN 1 ELSE 0),
                  rets |-> <<one.ret>> \o rest.rets]
             Rest(one) ==
                 Count(one, AddMultiplePackages(one.doc, Tail(packages), force_update))
         IN Rest(AddRosPackage(doc, Head(packages), force_update))

\* validate_existing_entries, for one entry: the kinds of issue it reports,
\* or that it raises (an entry or a codename's value that is a number or
\* None, an identifier that is no string).  A string is walked character by
\* character, and no character starts with 'ros-'.
EntryIssues(package_data) ==
    LET ListIssues(v) ==
            CASE v.ty = "list" ->
                   [raised |-> \E i \in 1..Len(v.items) : v.items[i].ty # "str",
                    issues |-> (IF v.items = <<>> THEN {"empty"} ELSE {})
                       \cup (IF \E i \in 1..Len(v.items) :
                                  /\ v.items[i].ty = "str"
                                  /\ (v.items[i].s = <<>> \/ Head(v.items[i].s) # "ros-")
                             THEN {"non_ros"} ELSE {})]
              [] v.ty = "str" ->
                   [raised |-> FALSE,
                    issues |-> IF v.s = <<>> THEN {"empty"} ELSE {"non_ros"}]
              [] v.ty = "map" ->
                   [raised |-> DOMAIN v.m # {},
                    issues |-> IF DOMAIN v.m = {} THEN {"empty"} ELSE {}]
              [] OTHER -> [raised |-> TRUE, issues |-> {"empty"}]
    IN CASE package_data.ty \in {"int", "null"} -> [raised |-> TRUE, issues |-> {}]
         [] package_data.ty \in {"str", "list"} ->
              [raised |-> FALSE, issues |-> {"missing_ubuntu"}]
         [] package_data.ty = "map" ->
              IF "ubuntu" \notin DOMAIN package_data.m
              THEN [raised |-> FALSE, issues |-> {"missing_ubuntu"}]
              ELSE LET ubuntu_data == package_data.m["ubuntu"]
                   IN CASE ubuntu_data.ty = "list" -> ListIssues(ubuntu_data)
                        [] ubuntu_data.ty = "map" ->
                             [raised |-> \E d \in DOMAIN ubuntu_data.m :
                                            ListIssues(ubuntu_data.m[d]).raised,
                              issues |-> UNION {ListIssues(ubuntu_data.m[d]).issues :
                                                  d \in DOMAIN ubuntu_data.m}]
                        [] OTHER -> [raised |-> FALSE, issues |-> {"bad_type"}]

\* validate_existing_entries: the issues of all entries.
ValidateExistingEntries(doc) ==
    [raised |-> \E k \in DOMAIN doc.m : EntryIssues(doc.m[k]).raised,
     issues |-> {<<k, i>> : k \in DOMAIN doc.m, i \in {"missing_ubuntu", "empty", "non_ros", "bad_type"}}
                  \cap {<<k, i>> \in (DOMAIN doc.m) \X {"missing_ubuntu", "empty", "non_ros", "bad_type"} :
                           i \in EntryIssues(doc.m[k]).issues}]

None == [some |-> FALSE, set |-> {}]
Some(S) == [some |-> TRUE, set |-> S]

\* The function m restricted to the keys in S.
Restrict(m, S) == [k \in (DOMAIN m) \cap S |-> m[k]]

\* What the operating system does to one save: nothing, or it fails the
\* backup copy, or it fails the opening of the configuration file for
\* writing (after the backup copy).
IoOutcomes == {"ok", "copy_fails", "open_fails"}

\* A save that opens the file with mode 'w': what was there is gone.
AppendedTextTruncating(file, new_yaml) == new_yaml

\* An append that writes the new entries straight after the last byte.
AppendedTextUnseparated(file, new_yaml) == file.toks \o new_yaml

\* The text of the file after open(rosdep_file, 'a') and the writes of lines
\* 256-266: a newline if the file does not end in one, one more if the file
\* is not empty, then the new entries.
AppendedText(file, new_yaml) ==
    LET needs_newline ==
            file.ex /\ file.toks # <<>> /\ file.toks[Len(file.toks)] # NL
    IN file.toks
         \o (IF needs_newline THEN <<NL>> ELSE <<>>)
         \o (IF file.ex /\ file.toks # <<>> THEN <<NL>> ELSE <<>>)
         \o new_yaml

\* A save that takes its backup copy after it has written the file.
SaveRosdepFileCopyingLate(doc, file, bak, backup, append_only, original_packages, io) ==
    LET same(ret, raised) ==
            [ret |-> ret, raised |-> raised, file |-> file, bak |-> bak]
        written(text) ==
            IF io = "open_fails" THEN same(FALSE, FALSE)
            ELSE [ret |-> io # "copy_fails", raised |-> FALSE, file |-> File(text),
                  bak |-> IF backup /\ file.ex /\ io # "copy_fails"
                          THEN File(text) ELSE bak]
        AppendNew(new_entries) ==
            IF DOMAIN new_entries.m = {} THEN same(TRUE, FALSE)
            ELSE IF ~ValidateYamlSyntax(new_entries) THEN same(FALSE, FALSE)
            ELSE written(AppendedText(file, YamlDump(new_entries)))
    IN IF append_only
       THEN IF ~original_packages.some THEN same(FALSE, FALSE)
            ELSE IF doc.ty # "map" THEN same(FALSE, TRUE)
            ELSE AppendNew(YMap(Restrict(doc.m, (DOMAIN doc.m) \ original_packages.set)))
       ELSE IF ~ValidateYamlSyntax(doc) THEN same(FALSE, FALSE)
            ELSE written(YamlDump(doc))

\* save_rosdep_file.  The result holds the returned value, whether the call
\* raised, the two files afterwards, and the validation verdict when run.
SaveRosdepFile(doc, file, bak, backup, append_only, original_packages, io) ==
    LET same(ret, raised) ==
            [ret |-> ret, raised |-> raised, file |-> file, bak |-> bak]
        Written(text, copied) ==
            IF io = "open_fails"
            THEN [ret |-> FALSE, raised |-> FALSE, file |-> file, bak |-> copied]
            ELSE [ret |-> TRUE, raised |-> FALSE, file |-> File(text), bak |-> copied]
        written(text) ==
            IF backup /\ file.ex /\ io = "copy_fails" THEN same(FALSE, FALSE)
            ELSE Written(text, IF backup /\ file.ex THEN file ELSE bak)
        AppendNew(new_entries) ==
            IF DOMAIN new_entries.m = {} THEN same(TRUE, FALSE)
            ELSE IF ~ValidateYamlSyntax(new_entries) THEN same(FALSE, FALSE)
            ELSE written(AppendedText(file, YamlDump(new_entries)))
    IN IF append_only
       THEN IF ~original_packages.some THEN same(FALSE, FALSE)
            ELSE IF doc.ty # "map" THEN same(FALSE, TRUE)
            ELSE AppendNew(YMap(Restrict(doc.m, (DOMAIN doc.m) \ original_packages.set)))
       ELSE IF ~ValidateYamlSyntax(doc) THEN same(FALSE, FALSE)
            ELSE written(YamlDump(doc))

\* get_changes_summary.
GetChangesSummary(doc, original_packages) ==
    LET current_packages == GetExistingPackages(doc).keys
        added_packages == current_packages \ original_packages
        removed_packages == original_packages \ current_packages
    IN [total_packages_before |-> Cardinality(original_packages),
        total_packages_after |-> Cardinality(current_packages),
        added_packages |-> SortedSeq(added_packages),
        removed_packages |-> SortedSeq(removed_packages),
        added_count |-> Cardinality(added_packages),
        removed_count |-> Cardinality(removed_packages),
        net_change |-> Cardinality(added_packages) - Cardinality(removed_packages)]

\* filter_new_packages: the records whose name is not an existing key.
FilterNewPackages(doc, packages) ==
    LET existing_packages == GetExistingPackages(doc).keys
        IsNew(package) == package.name \notin existing_packages
    IN SelectSeq(packages, IsNew)

\* A manual filter that a forced run skips.
FilterManualUnlessForced(pkgs, manual_packages, force_update) ==
    LET NotManual(pkg) == pkg.name \notin manual_packages
    IN IF manual_packages # {} /\ ~force_update THEN SelectSeq(pkgs, NotManual)
       ELSE pkgs

\* Lines 398-404: the records whose name is not a manual package.
FilterManual(pkgs, manual_packages, force_update) ==
    LET NotManual(pkg) == pkg.name \notin manual_packages
    IN IF manual_packages # {} THEN SelectSeq(pkgs, NotManual) ELSE pkgs

NoChanges == [none |-> TRUE]

\* An update that adds nothing and rewrites the file in full, with a backup,
\* on every run.
UpdateRosdepWithPackagesRewriting(packages, file, bak, force_update, env_value, manual_file, io) ==
    LET Saved(loaded, saved) ==
            [raised |-> FALSE, success |-> TRUE, packages_added |-> 0,
             changes |-> NoChanges, loaded |-> loaded, doc |-> loaded,
             file |-> saved.file, bak |-> saved.bak, save_called |-> TRUE,
             to_add |-> <<>>, rets |-> <<>>]
        Loaded(loaded) ==
            Saved(loaded, SaveRosdepFile(loaded, file, bak, TRUE, FALSE, None, io))
    IN Loaded(LoadRosdepFile(file))

\* update_rosdep_with_packages: load, snapshot, the two filters, the merge
\* and the append-only save.  The result holds the returned dictionary, the
\* document loaded and the document at the end, the two files, the records
\* that reached the merge and what add_ros_package returned for each.
UpdateRosdepWithPackages(packages, file, bak, force_update, env_value, manual_file, io) ==
    LET out(raised, success, n, changes, loaded, doc, f, b, wrote, to_add, rets) ==
            [raised |-> raised, success |-> success, packages_added |-> n,
             changes |-> changes, loaded |-> loaded, doc |-> doc,
             file |-> f, bak |-> b, save_called |-> wrote,
             to_add |-> to_add, rets |-> rets]
        Saved(loaded, original_packages, packages_to_add, merged, saved) ==
            IF saved.ret
            THEN out(FALSE, TRUE, merged.added_count,
                     GetChangesSummary(merged.doc, original_packages),
                     loaded, merged.doc, saved.file, saved.bak, TRUE,
                     packages_to_add, merged.rets)
            ELSE out(FALSE, FALSE, 0, NoChanges, loaded, merged.doc,
                     saved.file, saved.bak, TRUE, packages_to_add, merged.rets)
        Merged(loaded, original_packages, packages_to_add, merged) ==
            IF merged.added_count = 0
            THEN out(FALSE, TRUE, 0, GetChangesSummary(merged.doc, original_packages),
                     loaded, merged.doc, file, bak, FALSE, packages_to_add, merged.rets)
            ELSE Saved(loaded, original_packages, packages_to_add, merged,
                       SaveRosdepFile(merged.doc, file, bak, TRUE, TRUE,
                                      Some(original_packages), io))
        Filtered(loaded, original_packages, packages_to_add) ==
            IF packages_to_add = <<>>
            THEN out(FALSE, TRUE, 0, GetChangesSummary(loaded, original_packages),
                     loaded, loaded, file, bak, FALSE, <<>>, <<>>)
            ELSE Merged(loaded, original_packages, packages_to_add,
                        AddMultiplePackages(loaded, packages_to_add, force_update))
        Snapshot(loaded, existing) ==
            IF existing.raised
            THEN out(TRUE, FALSE, 0, NoChanges, loaded, loaded, file, bak, FALSE,
                     <<>>, <<>>)
            ELSE Filtered(loaded, existing.keys,
                          FilterManual(IF ~force_update
                                       THEN FilterNewPackages(loaded, packages)
                                       ELSE packages,
                                       GetManualPackages(env_value, manual_file),
                                       force_update))
        Loaded(loaded) == Snapshot(loaded, GetExistingPackages(loaded))
    IN Loaded(LoadRosdepFile(file))

\* ------------------------------------------------------------ sample inputs

Ubuntu(v) == YMap([k \in {"ubuntu"} |-> v])
Jammy(v) == YMap([k \in {"jammy"} |-> v])
VGood(n) == Ubuntu(GetRosdepEntries(ROSPackage(n, RepoAlpha)))
\* jammy: ros-humble-a      (a string where a list is expected)
VStrCodename == Ubuntu(Jammy(YStr(<<"ros-", "humble-", "a">>)))
\* jammy: []
VEmptyList == Ubuntu(Jammy(YList(<<>>)))
\* jammy: [liba]
VNoPrefix == Ubuntu(Jammy(YList(<<YStr(<<"lib", "a">>)>>)))
\* ubuntu: [ros-a]          (the list form of an entry)
VLegacy == Ubuntu(YList(<<YStr(<<"ros-", "a">>)>>))
\* a: a                     (an entry that is no mapping)
VNotDict == YStr(NameA)
\* fedora: [ros-a]
VNoUbuntu == YMap([k \in {"fedora"} |-> YList(<<YStr(<<"ros-", "a">>)>>)])
\* jammy: [42]
VNonStrId == Ubuntu(Jammy(YList(<<YInt(42)>>)))

EntryVals ==
    {VGood(NameA), VStrCodename, VEmptyList, VNoPrefix, VLegacy, VNotDict,
     VNoUbuntu, VNonStrId}

\* The configuration files a run can find: none, an empty one, a blank one,
\* mappings (one ending without a newline), "{}", unparseable text, a
\* sequence, and scalars.
InitFiles ==
    {NoFile, File(<<>>), File(<<NL>>), File(<<Flow, NL>>), File(<<Junk, NL>>),
     File(<<Item(YStr(NameA)), NL>>), File(<<Scalar(YStr(NameA)), NL>>),
     File(<<Scalar(YInt(42)), NL>>), File(<<Entry(NameA, VGood(NameA))>>)}
    \cup {File(<<Entry(NameA, v), NL>>) : v \in EntryVals}
    \cup {File(<<Entry(NameB, v), NL, Entry(NameA, VGood(NameA)), NL>>) :
            v \in {VGood(NameB), VStrCodename}}

NoSidecar == [ex |-> FALSE, lines |-> <<>>]
\* MANUAL_ENTRIES and manual_entries.txt: neither; "a_b, b"; a file holding
\* a comment line, a blank line and the padded name " b ".
ManualSamples ==
    {[env |-> <<>>, file |-> NoSidecar],
     [env |-> <<"a", "_", "b", ",", " ", "b">>, file |-> NoSidecar],
     [env |-> <<>>,
      file |-> [ex |-> TRUE, lines |-> << <<"#", "a">>, <<>>, <<" ", "b", " ">> >>]]}

Packages == {ROSPackage(n, r) : n \in PkgNames, r \in Repos}

RECURSIVE SeqsUpTo(_, _)
\* The sequences over S of length at most n.
SeqsUpTo(S, n) ==
    IF n = 0 THEN {<<>>}
    ELSE LET shorter == SeqsUpTo(S, n - 1)
         IN shorter \cup {Append(q, x) : q \in shorter, x \in S}

PkgLists == SeqsUpTo(Packages, MaxPkgs)

\* ------------------------------------------- environment and credentials

\* os.getenv(name): None for a variable that is not set, else its string.
Unset == [set |-> FALSE, s |-> <<>>]
Value(s) == [set |-> TRUE, s |-> s]

\* The truth value Python gives to what os.getenv returned.
EnvTruthy(v) == v.set /\ v.s # <<>>

\* Python's `a or b`.
PyOr(a, b) == IF EnvTruthy(a) THEN a ELSE b

\* str.lower() over the letters the flag values are written with.
LowerChar(c) ==
    CASE c = "T" -> "t" [] c = "R" -> "r" [] c = "U" -> "u" [] c = "E" -> "e"
      [] OTHER -> c
Lower(s) == [i \in DOMAIN s |-> LowerChar(s[i])]

TokenVars == <<"ROSDEP_GITHUB_TOKEN", "GITHUB_ORG_TOKEN", "GH_TOKEN", "GITHUB_TOKEN">>
EnvVars == {TokenVars[i] : i \in 1..Len(TokenVars)} \cup {"REPOSITORY_NAME", "FORCE_UPDATE"}

NoClient == [some |-> FALSE, token |-> <<>>]
GitHubAPI(token) == [some |-> TRUE, token |-> token]

\* create_github_client: the first of the four variables with a non-empty
\* value is the token; no client when there is none.
CreateGithubClient(environ) ==
    LET token == PyOr(PyOr(PyOr(environ["ROSDEP_GITHUB_TOKEN"],
                                environ["GITHUB_ORG_TOKEN"]),
                           environ["GH_TOKEN"]),
                      environ["GITHUB_TOKEN"])
    IN IF ~EnvTruthy(token) THEN NoClient ELSE GitHubAPI(token.s)

\* ------------------------------------------------- the API and the analyzer

\* What a request meets: a 200, a failure that requests reports as a
\* RequestException, or a rate-limit response (_request raises
\* RateLimitError, which no `except requests.RequestException` catches).
ApiResponses == {"ok", "error", "rate_limited"}

RepoName(i) == [j \in 1..i |-> "a"]
\* The i-th repository of the organization: a package at its root whose
\* manifest names it, padded with blanks.
RemoteRepo(i) ==
    [name |-> RepoName(i),
     files |-> {"package.xml", "CMakeLists.txt"},
     manifest_name |-> <<" ">> \o (IF i = 1 THEN NameA ELSE IF i = 2 THEN NameB ELSE NameAB)]
RemoteRepos == [i \in 1..MaxRepos |-> RemoteRepo(i)]

\* get_organization_repositories, the organization fitting in one page:
\* a RequestException ends the listing with what was collected.
GetOrganizationRepositories(response) ==
    [raised |-> response = "rate_limited",
     repositories |-> IF response = "ok" THEN RemoteRepos ELSE <<>>]

\* get_specific_repository: None on a RequestException.
GetSpecificRepository(repo, response) ==
    LET hits == SelectSeq(RemoteRepos, LAMBDA r : r.name = repo)
    IN [raised |-> response = "rate_limited",
        repositories |-> IF response = "ok" THEN hits ELSE <<>>]

\* get_repository_contents: the names of the files of the directory, None
\* (here the empty listing, which callers treat alike) on a RequestException.
GetRepositoryContents(repository, response) ==
    [raised |-> response = "rate_limited",
     items |-> IF response = "ok" THEN repository.files ELSE {}]

\* find_package_xml_files over a repository without subdirectories.
FindPackageXmlFiles(repository, response) ==
    LET contents == GetRepositoryContents(repository, response)
    IN [raised |-> contents.raised,
        paths |-> IF "package.xml" \in contents.items
                  THEN <<"package.xml">> ELSE <<>>]

\* validate_ros_package_structure: CMakeLists.txt beside the manifest.
ValidateRosPackageStructure(repository, response) ==
    LET contents == GetRepositoryContents(repository, response)
    IN [raised |-> contents.raised,
        ret |-> contents.items # {} /\ "CMakeLists.txt" \in contents.items]

\* get_file_content: the manifest, None on a RequestException.
GetFileContent(repository, response) ==
    [raised |-> response = "rate_limited",
     some |-> response = "ok",
     name_text |-> IF response = "ok" THEN repository.manifest_name ELSE <<>>]

\* extract_package_name_from_xml: the stripped text of <name>, None when
\* the element has no text.
ExtractPackageNameFromXml(xml_content) ==
    IF xml_content.name_text # <<>>
    THEN [some |-> TRUE, name |-> Strip(xml_content.name_text)]
    ELSE [some |-> FALSE, name |-> <<>>]

\* analyze_repository: responses[1] answers the listing, responses[2] the
\* structure check and responses[3] the fetch of the manifest.
AnalyzeRepository(repository, responses) ==
    LET found == FindPackageXmlFiles(repository, responses[1])
        valid == ValidateRosPackageStructure(repository, responses[2])
        xml_content == GetFileContent(repository, responses[3])
        package_name == ExtractPackageNameFromXml(xml_content)
        raise == [raised |-> TRUE, packages |-> <<>>]
        return(pkgs) == [raised |-> FALSE, packages |-> pkgs]
    IN IF found.raised THEN raise
       ELSE IF found.paths = <<>> THEN return(<<>>)
       ELSE IF valid.raised THEN raise
       ELSE IF ~valid.ret THEN return(<<>>)
       ELSE IF xml_content.raised THEN raise
       ELSE IF ~xml_content.some THEN return(<<>>)
       ELSE IF ~package_name.some \/ package_name.name = <<>> THEN return(<<>>)
       ELSE return(<<ROSPackage(package_name.name, repository.name)>>)

RECURSIVE UniqueFold(_, _, _)
\* The loop of get_unique_packages: order holds the keys in the order of
\* their first insertion, kept the record held for each key.
UniqueFold(pkgs, order, kept) ==
    IF pkgs = <<>> THEN [i \in 1..Len(order) |-> kept[order[i]]]
    ELSE LET package == Head(pkgs)
             key == package.name
         IN IF key \notin DOMAIN kept
            THEN UniqueFold(Tail(pkgs), Append(order, key), Put(kept, key, package))
            ELSE IF LexLess(kept[key].repository, package.repository)
            THEN UniqueFold(Tail(pkgs), order, Put(kept, key, package))
            ELSE UniqueFold(Tail(pkgs), order, kept)

\* A de-duplication that keeps the first record of each name.
GetUniquePackagesFirstWins(pkgs) ==
    LET keep[i \in 0..Len(pkgs)] ==
            IF i = 0 THEN <<>>
            ELSE IF \E j \in 1..(i - 1) : pkgs[j].name = pkgs[i].name THEN keep[i - 1]
            ELSE Append(keep[i - 1], pkgs[i])
    IN keep[Len(pkgs)]

\* get_unique_packages.
GetUniquePackages(pkgs) == UniqueFold(pkgs, <<>>, EmptyFcn)

\* The parameters analyze_organization_repositories binds by keyword.
AnalyzeParams == {"org", "specific_repo"}

\* ------------------------------------------------ the client, call by call

\* What requests.get meets: no response at all (a RequestException), or a
\* response with its status, whether it carries the marks of a rate limit
\* (X-RateLimit-Remaining: 0, or the message), and its body.
\* A body is what response.json() gives: its kind, and the items a loop
\* or an extend() finds in it (the elements of an array, the keys of an
\* object).
Body(kind, items, type, content) ==
    [kind |-> kind, items |-> items, type |-> type, content |-> content]
NoBody == Body("none", <<>>, "none", "none")
Transport == [transport |-> TRUE, status |-> 0, marks |-> FALSE, body |-> NoBody]
Http(status, marks, body) ==
    [transport |-> FALSE, status |-> status, marks |-> marks, body |-> body]

\* The body of a failed response: a JSON object holding a message.
ErrorBody ==
    Body("object", <<[key |-> "message"], [key |-> "documentation_url"]>>, "none", "none")

FailStatuses == {401, 403, 404, 429, 500}
Failures ==
    {Transport} \cup {Http(st, marks, ErrorBody) : st \in FailStatuses, marks \in BOOLEAN}

\* _is_rate_limited.
IsRateLimited(response) == response.status \in {403, 429} /\ response.marks

\* response.raise_for_status() raises HTTPError, a RequestException.
RaisesForStatus(response) == response.status >= 400

\* _request: the exception it leaves with, or the response; authorized
\* tells whether the Authorization header was sent.
Request(token, use_auth, response) ==
    [outcome |-> IF response.transport THEN "transport"
                 ELSE IF IsRateLimited(response) THEN "rate_limited"
                 ELSE "response",
     response |-> response,
     authorized |-> use_auth /\ token]

\* The request of get_repository_contents, get_file_content,
\* get_specific_repository and repository_exists: with the token, and once
\* more without it when the answer is 401 or 403 and a token is configured.
\* first answers the first request, second the other.
WithFallback(token, first, second) ==
    LET Retried(a1, a2) ==
            [outcome |-> a2.outcome, response |-> a2.response,
             sent |-> <<a1.authorized, a2.authorized>>]
        Answered(a1) ==
            IF a1.outcome = "response" /\ a1.response.status \in {401, 403} /\ token
            THEN Retried(a1, Request(token, FALSE, second))
            ELSE [outcome |-> a1.outcome, response |-> a1.response,
                  sent |-> <<a1.authorized>>]
    IN Answered(Request(token, TRUE, first))

\* The value a call returns for "nothing".
Absent == [some |-> FALSE, body |-> NoBody]
Present(body) == [some |-> TRUE, body |-> body]

\* The end common to get_repository_contents and get_specific_repository:
\* RateLimitError leaves the call, a RequestException gives None, a
\* response that passes raise_for_status gives its JSON.
JsonOrNone(f) ==
    [raised |-> f.outcome = "rate_limited",
     value |-> IF f.outcome = "response" /\ ~RaisesForStatus(f.response)
               THEN Present(f.response.body) ELSE Absent,
     sent |-> f.sent]

\* get_repository_contents, request by request.
GetRepositoryContentsHttp(token, first, second) ==
    JsonOrNone(WithFallback(token, first, second))

\* get_specific_repository, request by request.
GetSpecificRepositoryHttp(token, first, second) ==
    JsonOrNone(WithFallback(token, first, second))

\* repository_exists: status 200, False on a RequestException.
RepositoryExists(token, first, second) ==
    LET Exists(f) ==
            [raised |-> f.outcome = "rate_limited",
             value |-> f.outcome = "response" /\ f.response.status = 200,
             sent |-> f.sent]
    IN Exists(WithFallback(token, first, second))

\* What the contents endpoint answers for a path: a file with its base64
\* content (sound, with broken padding, or of bytes that are not UTF-8),
\* an object of another type, or the array of a directory.
FileKeys == <<[key |-> "type"], [key |-> "content"]>>
FileBodies ==
    {Body("object", FileKeys, "file", c) : c \in {"text", "bad_padding", "not_utf8"}}
    \cup {Body("object", FileKeys, "symlink", "none"),
          Body("array", <<[key |-> "entry"]>>, "none", "none")}

\* get_file_content, request by request. error names the exception that
\* leaves the call: only a RequestException is caught.
GetFileContentHttp(token, first, second) ==
    LET Leaves(f, error) ==
            [raised |-> TRUE, error |-> error, value |-> Absent, sent |-> f.sent]
        Returns(f, value) ==
            [raised |-> FALSE, error |-> "none", value |-> value, sent |-> f.sent]
        Decoded(f, content_data) ==
            IF content_data.kind = "array" THEN Leaves(f, "AttributeError")
            ELSE IF content_data.type # "file" THEN Returns(f, Absent)
            ELSE IF content_data.content = "bad_padding" THEN Leaves(f, "binascii.Error")
            ELSE IF content_data.content = "not_utf8" THEN Leaves(f, "UnicodeDecodeError")
            ELSE Returns(f, Present(content_data))
        Fetched(f) ==
            IF f.outcome = "rate_limited" THEN Leaves(f, "RateLimitError")
            ELSE IF f.outcome = "transport" \/ RaisesForStatus(f.response)
            THEN Returns(f, Absent)
            ELSE Decoded(f, f.response.body)
    IN Fetched(WithFallback(token, first, second))

\* per_page of get_organization_repositories.
PerPage == 100

\* The repositories the remote lists on a page, told apart by page and place.
PageItems(page, n) == [i \in 1..n |-> [page |-> page, index |-> i]]
PageSizes == {0, 1, PerPage - 1, PerPage}
PageBody(page, n) == Body("array", PageItems(page, n), "none", "none")
PageResponses(page) == Failures \cup {Http(200, FALSE, PageBody(page, n)) : n \in PageSizes}

\* One pass of the while loop of get_organization_repositories: the
\* request of the page, the request without the token, raise_for_status,
\* and what the body does to repositories and page. pc is "loop" when the
\* loop goes on, "returned" after a break, "raised" when RateLimitError
\* leaves the function.
ListPageStep(token, page, repositories, first, second) ==
    LET Asked(a) == [page |-> page, authorized |-> a.authorized,
                     type |-> IF a.authorized \/ ~token THEN "all" ELSE "public"]
        Break(requests, response) ==
            [pc |-> "returned", page |-> page, repositories |-> repositories,
             requests |-> requests, response |-> response, used |-> FALSE]
        Raise(requests, response) ==
            [pc |-> "raised", page |-> page, repositories |-> repositories,
             requests |-> requests, response |-> response, used |-> FALSE]
        Use(requests, response) ==
            IF response.body.items = <<>>
            THEN [pc |-> "returned", page |-> page, repositories |-> repositories,
                  requests |-> requests, response |-> response, used |-> TRUE]
            ELSE [pc |-> IF Len(response.body.items) < PerPage THEN "returned" ELSE "loop",
                  page |-> IF Len(response.body.items) < PerPage THEN page ELSE page + 1,
                  repositories |-> repositories \o response.body.items,
                  requests |-> requests, response |-> response, used |-> TRUE]
        Forbidden(requests, response) ==
            IF response.status \in {401, 403}
            THEN Break(requests, response) ELSE Use(requests, response)
        Second(a1, a2) ==
            IF a2.outcome = "transport" THEN Break(<<Asked(a1), Asked(a2)>>, a2.response)
            ELSE IF a2.outcome = "rate_limited"
            THEN Raise(<<Asked(a1), Asked(a2)>>, a2.response)
            ELSE Forbidden(<<Asked(a1), Asked(a2)>>, a2.response)
        First(a1) ==
            IF a1.outcome = "transport" THEN Break(<<Asked(a1)>>, a1.response)
            ELSE IF a1.outcome = "rate_limited" THEN Raise(<<Asked(a1)>>, a1.response)
            ELSE IF a1.response.status \in {401, 403}
            THEN IF token THEN Second(a1, Request(token, FALSE, second))
                 ELSE Forbidden(<<Asked(a1)>>, a1.response)
            ELSE IF RaisesForStatus(a1.response) THEN Break(<<Asked(a1)>>, a1.response)
            ELSE Use(<<Asked(a1)>>, a1.response)
    IN First(Request(token, TRUE, first))

\* --------------------------------------------- the analyzer, file by file

\* A repository is a chain of directories, each named "a" below its parent;
\* a directory is known by its path from the root.
MaxDepth == 2
DirPath(d) == [i \in 1..d |-> "a"]

\* What package.xml holds: a document that parses or not, and the text of
\* its <name> element (empty when the element is missing or has no text).
Xml(well_formed, name_text) == [well_formed |-> well_formed, name_text |-> name_text]
Malformed == Xml(FALSE, <<>>)
Xmls == {Xml(TRUE, <<" ">> \o NameA), Xml(TRUE, <<" ">>), Xml(TRUE, <<>>), Malformed}

\* The manifest of a directory: none, or the answer its fetch gets and the
\* document the answer carries.
NoManifest == [present |-> FALSE, answer |-> Transport, xml |-> Malformed]
Manifest(answer, xml) == [present |-> TRUE, answer |-> answer, xml |-> xml]
TextAnswer == Http(200, FALSE, Body("object", FileKeys, "file", "text"))
Unfetchable ==
    {Transport, Http(404, FALSE, ErrorBody),
     Http(200, FALSE, Body("object", FileKeys, "file", "bad_padding")),
     Http(200, FALSE, Body("object", FileKeys, "file", "not_utf8"))}
Manifests ==
    {NoManifest} \cup {Manifest(TextAnswer, x) : x \in Xmls}
                 \cup {Manifest(a, Malformed) : a \in Unfetchable}

Directories == [cmake : BOOLEAN, manifest : Manifests]
Trees == UNION {[0..d -> Directories] : d \in 0..MaxDepth}

\* The listing get_repository_contents gives for the directory at depth d,
\* in the order of the names: CMakeLists.txt, the subdirectory, package.xml.
TreeContents(repo_tree, d) ==
    (IF repo_tree[d].cmake
     THEN <<[name |-> "CMakeLists.txt", type |-> "file", path |-> Append(DirPath(d), "CMakeLists.txt")]>>
     ELSE <<>>)
    \o (IF d + 1 \in DOMAIN repo_tree
        THEN <<[name |-> "a", type |-> "dir", path |-> DirPath(d + 1)]>>
        ELSE <<>>)
    \o (IF repo_tree[d].manifest.present
        THEN <<[name |-> "package.xml", type |-> "file", path |-> Append(DirPath(d), "package.xml")]>>
        ELSE <<>>)

RECURSIVE FindPackageXmlFilesIn(_, _)
RECURSIVE FindInItems(_, _)
\* The loop of find_package_xml_files over the items of a listing.
FindInItems(repo_tree, items) ==
    IF items = <<>> THEN <<>>
    ELSE (IF Head(items).type = "file" /\ Head(items).name = "package.xml"
          THEN <<Head(items).path>>
          ELSE IF Head(items).type = "dir"
          THEN FindPackageXmlFilesIn(repo_tree, Len(Head(items).path))
          ELSE <<>>)
         \o FindInItems(repo_tree, Tail(items))

\* find_package_xml_files from the directory at depth d.
FindPackageXmlFilesIn(repo_tree, d) == FindInItems(repo_tree, TreeContents(repo_tree, d))

\* os.path.dirname of a path, as the depth of the directory.
DirnameDepth(path) == Len(path) - 1

\* validate_ros_package_structure on the listing of the manifest's directory.
HasCMakeLists(repo_tree, package_xml_path) ==
    LET contents == TreeContents(repo_tree, DirnameDepth(package_xml_path))
    IN /\ contents # <<>>
       /\ \E i \in 1..Len(contents) :
             contents[i].type = "file" /\ contents[i].name = "CMakeLists.txt"

\* extract_package_name_from_xml: ParseError gives None, and so does a
\* missing or empty <name>; otherwise the stripped text.
ExtractPackageNameFromDocument(xml) ==
    IF xml.well_formed /\ xml.name_text # <<>>
    THEN [some |-> TRUE, name |-> Strip(xml.name_text)]
    ELSE [some |-> FALSE, name |-> <<>>]

\* ROSPackage(package_name, repo_name, package_xml_path).
ROSPackageAt(name, repo, path) ==
    [name |-> name, repository |-> repo, package_xml_path |-> path]

RECURSIVE ScanManifests(_, _, _, _, _)
\* The loop of analyze_repository over package_xml_files: a manifest is
\* skipped by continue, an exception of get_file_content leaves the
\* function with the records collected so far lost.
ScanManifests(repo_name, repo_tree, token, package_xml_files, pkgs) ==
    LET package_xml_path == Head(package_xml_files)
        Continue(found) ==
            ScanManifests(repo_name, repo_tree, token, Tail(package_xml_files), found)
        Named(package_name) ==
            IF ~package_name.some \/ package_name.name = <<>> THEN Continue(pkgs)
            ELSE Continue(Append(pkgs, ROSPackageAt(package_name.name, repo_name,
                                                    package_xml_path)))
        Fetched(manifest, xml_content) ==
            IF xml_content.raised
            THEN [raised |-> TRUE, error |-> xml_content.error, packages |-> <<>>]
            ELSE IF ~xml_content.value.some THEN Continue(pkgs)
            ELSE Named(ExtractPackageNameFromDocument(manifest.xml))
        Fetch(manifest) ==
            Fetched(manifest, GetFileContentHttp(token, manifest.answer, Transport))
    IN IF package_xml_files = <<>>
       THEN [raised |-> FALSE, error |-> "none", packages |-> pkgs]
       ELSE IF ~HasCMakeLists(repo_tree, package_xml_path) THEN Continue(pkgs)
       ELSE Fetch(repo_tree[DirnameDepth(package_xml_path)].manifest)

\* analyze_repository on a repository whose listings are answered.
AnalyzeRepositoryTree(repo_name, repo_tree, token) ==
    ScanManifests(repo_name, repo_tree, token, FindPackageXmlFilesIn(repo_tree, 0), <<>>)

\* ------------------------------------------------------------------- state

VARIABLES
    rosdep_file,   \* rosdep.yaml
    backup_file,   \* rosdep.yaml.backup
    manual_env,    \* the value of MANUAL_ENTRIES
    manual_file,   \* manual_entries.txt
    packages,      \* the discovered packages handed to the reconciler
    force_update,  \* the force flag handed to the reconciler
    updater,       \* a ROSDepUpdater object: its rosdep_data and the caller's baseline
    last,          \* the last call: its arguments and what it returned
    env,           \* the environment of the process
    run,           \* a run of an entry point: where it stands and how it ended
    listing,       \* a call of get_organization_repositories: where its loop stands
    tree           \* the directories of the repository handed to analyze_repository

vars == <<rosdep_file, backup_file, manual_env, manual_file, packages,
          force_update, updater, last, env, run, listing, tree>>

files == <<rosdep_file, backup_file>>
inputs == <<manual_env, manual_file, packages, force_update>>

process == <<env, run, listing, tree>>

NoUpdater == [live |-> FALSE]
NoEnv == [v \in EnvVars |-> Unset]
NoRun == [pc |-> "none"]
NoListing == [pc |-> "none"]
NoTree == [d \in 0..0 |-> [cmake |-> FALSE, manifest |-> NoManifest]]

\* ----------------------------------------------- the reconciler, run by run

Init ==
    /\ rosdep_file \in InitFiles
    /\ backup_file = NoFile
    /\ \E ms \in ManualSamples : manual_env = ms.env /\ manual_file = ms.file
    /\ packages \in PkgLists
    /\ force_update \in BOOLEAN
    /\ updater = NoUpdater
    /\ last = [op |-> "none"]
    /\ env = NoEnv
    /\ run = NoRun
    /\ listing = NoListing
    /\ tree = NoTree

\* What the model keeps of a call of update_rosdep_with_packages.
UpdateCall(r) ==
    [op |-> "update", raised |-> r.raised, success |-> r.success,
     packages_added |-> r.packages_added, changes |-> r.changes,
     loaded |-> r.loaded, doc |-> r.doc,
     save_called |-> r.save_called, to_add |-> r.to_add, rets |-> r.rets]

\* update_rosdep_with_packages(packages, 'rosdep.yaml', force_update).
Update ==
    /\ Len(rosdep_file.toks) <= MaxFileLen
    /\ \E io \in IoOutcomes :
        LET Returned(r) ==
                /\ rosdep_file' = r.file
                /\ backup_file' = r.bak
                /\ last' = UpdateCall(r)
        IN Returned(UpdateRosdepWithPackages(packages, rosdep_file, backup_file,
                                             force_update, manual_env, manual_file, io))
    /\ UNCHANGED <<inputs, updater, process>>

Next == Update

Spec == Init /\ [][Next]_vars

\* ------------------------------------------- the ROSDepUpdater, call by call

\* The configuration files an updater is constructed on.
ObjectFiles ==
    {NoFile, File(<<Junk, NL>>), File(<<Item(YStr(NameA)), NL>>),
     File(<<Scalar(YStr(NameA)), NL>>), File(<<Entry(NameA, VGood(NameA))>>)}
    \cup {File(<<Entry(NameA, v), NL>>) : v \in EntryVals}

InitUpdater ==
    /\ rosdep_file \in ObjectFiles
    /\ backup_file = NoFile
    /\ manual_env = <<>>
    /\ manual_file = NoSidecar
    /\ packages = <<>>
    /\ force_update = FALSE
    /\ updater = NoUpdater
    /\ last = [op |-> "none"]
    /\ env = NoEnv
    /\ run = NoRun
    /\ listing = NoListing
    /\ tree = NoTree

\* ROSDepUpdater('rosdep.yaml').
NewUpdater ==
    /\ ~updater.live
    /\ updater' = [live |-> TRUE, rosdep_data |-> LoadRosdepFile(rosdep_file),
                   baseline |-> None, saves |-> 0]
    /\ last' = [op |-> "init"]
    /\ UNCHANGED <<files, inputs, process>>

\* original_packages = updater.get_existing_packages(): the caller keeps
\* what was returned as its baseline.
GetExisting ==
    /\ updater.live
    /\ LET Returned(r) ==
               /\ last' = [op |-> "get_existing", raised |-> r.raised, keys |-> r.keys]
               /\ updater' = [updater EXCEPT !.baseline =
                                 IF r.raised THEN None ELSE Some(r.keys)]
       IN Returned(GetExistingPackages(updater.rosdep_data))
    /\ UNCHANGED <<files, inputs, process>>

\* updater.add_ros_package(ros_package, force).
AddPackage ==
    /\ updater.live
    /\ \E ros_package \in Packages, force \in BOOLEAN :
        LET Returned(r) ==
                /\ updater' = [updater EXCEPT !.rosdep_data = r.doc]
                /\ last' = [op |-> "add", package |-> ros_package, force |-> force,
                            ret |-> r.ret, raised |-> r.raised]
        IN Returned(AddRosPackage(updater.rosdep_data, ros_package, force))
    /\ UNCHANGED <<files, inputs, process>>

\* updater.save_rosdep_file(backup, append_only, original_packages), the
\* baseline being absent, the empty set or the one the caller kept.
Save ==
    /\ updater.live
    /\ updater.saves < MaxSaves
    /\ \E backup \in BOOLEAN, append_only \in BOOLEAN, io \in IoOutcomes :
      \E original_packages \in {None, Some({}), updater.baseline} :
        LET Returned(r) ==
                /\ rosdep_file' = r.file
                /\ backup_file' = r.bak
                /\ last' = [op |-> "save", backup |-> backup,
                            append_only |-> append_only,
                            original_packages |-> original_packages, io |-> io,
                            ret |-> r.ret, raised |-> r.raised]
        IN Returned(SaveRosdepFile(updater.rosdep_data, rosdep_file, backup_file,
                                   backup, append_only, original_packages, io))
    /\ updater' = [updater EXCEPT !.saves = @ + 1]
    /\ UNCHANGED <<inputs, process>>

\* updater.get_changes_summary(original_packages) with the baseline the
\* caller kept; the AttributeError of get_existing_packages leaves the call.
Summary ==
    /\ updater.live
    /\ updater.baseline.some
    /\ LET Returned(r) ==
               last' = [op |-> "summary", raised |-> r.raised,
                        original_packages |-> updater.baseline.set,
                        summary |-> GetChangesSummary(updater.rosdep_data,
                                                      updater.baseline.set)]
       IN Returned(GetExistingPackages(updater.rosdep_data))
    /\ UNCHANGED <<files, inputs, updater, process>>

NextUpdater == NewUpdater \/ GetExisting \/ AddPackage \/ Save
    \/ Summary

SpecUpdater == InitUpdater /\ [][NextUpdater]_vars

\* ------------------------------------------------- a run, entry to exit

\* The configuration files a run finds: none, an empty one, unparseable
\* text and a mapping.
MainFiles ==
    {NoFile, File(<<>>), File(<<Junk, NL>>), File(<<Entry(NameA, VGood(NameA)), NL>>)}

\* A token variable is not set, set to the empty string, or holds a secret
\* of its own.
TokenValues(name) == {Unset, Value(<<>>), Value(<<"secret-of-", name>>)}
TokenNames == {TokenVars[i] : i \in 1..Len(TokenVars)}

EnvOf(tokens, repository_name, flag) ==
    [v \in EnvVars |-> IF v = "REPOSITORY_NAME" THEN repository_name
                       ELSE IF v = "FORCE_UPDATE" THEN flag
                       ELSE tokens[v]]

Environments ==
    {EnvOf(tokens, repository_name, flag) :
        tokens \in {t \in [TokenNames -> UNION {TokenValues(n) : n \in TokenNames}] :
                       \A n \in TokenNames : t[n] \in TokenValues(n)},
        repository_name \in {Unset, Value(RepoName(1))},
        flag \in {Unset, Value(<<"T", "r", "u", "e">>)}}

\* The entry points: main() of main.py and the script of rosdep_updater.py.
Entries == {"main", "updater_script"}

StartOfRun(entry) ==
    [entry |-> entry, pc |-> "start", exit_code |-> 0,
     start_banner |-> FALSE, end_banner |-> FALSE,
     rejected |-> FALSE, client |-> NoClient,
     specific_repo |-> Unset, repositories |-> <<>>, idx |-> 1,
     all_packages |-> <<>>,
     limited |-> FALSE, analysed_after_limit |-> FALSE,
     save_failed |-> FALSE, written |-> FALSE, error |-> "none"]

InitMain ==
    /\ rosdep_file \in MainFiles
    /\ backup_file = NoFile
    /\ manual_env = <<>>
    /\ manual_file = NoSidecar
    /\ packages = <<>>
    /\ force_update = FALSE
    /\ updater = NoUpdater
    /\ last = [op |-> "none"]
    /\ env \in Environments
    /\ \E entry \in Entries : run = StartOfRun(entry)
    /\ listing = NoListing
    /\ tree = NoTree

\* The process ends: through main's finally clause when the exit is raised
\* inside its try statement, with a traceback when nothing catches.
Exited(r, code, error) ==
    [r EXCEPT !.pc = "exited", !.exit_code = code, !.error = error,
              !.end_banner = (r.entry = "main")]

\* An exception leaves the analyzer: main catches it and exits 1, the
\* script dies of it.
Propagate(r, error) == Exited(r, 1, error)

\* main, from the banner to the test of GITHUB_TOKEN, which exits before
\* the try statement is entered.
MainStart ==
    /\ run.entry = "main" /\ run.pc = "start"
    /\ LET github_token == env["GITHUB_TOKEN"]
           flag_value == IF env["FORCE_UPDATE"].set THEN env["FORCE_UPDATE"]
                         ELSE Value(<<"f", "a", "l", "s", "e">>)
           started == [run EXCEPT !.start_banner = TRUE]
       IN /\ force_update' = (Lower(flag_value.s) = <<"t", "r", "u", "e">>)
          /\ run' = IF ~EnvTruthy(github_token)
                    THEN [started EXCEPT !.pc = "exited", !.exit_code = 1,
                                         !.rejected = TRUE, !.error = "no_token"]
                    ELSE [started EXCEPT !.pc = "client"]
    /\ UNCHANGED <<files, manual_env, manual_file, packages, updater, last, env, listing, tree>>

\* main: github_client = create_github_client().
MainCreateClient ==
    /\ run.entry = "main" /\ run.pc = "client"
    /\ LET github_client == CreateGithubClient(env)
       IN run' = IF ~github_client.some
                 THEN [Exited(run, 1, "no_client") EXCEPT !.rejected = TRUE]
                 ELSE [run EXCEPT !.client = github_client, !.pc = "config"]
    /\ UNCHANGED <<files, inputs, updater, last, env, listing, tree>>

\* main: ROSDepUpdater('rosdep.yaml').get_existing_packages().
MainLoadConfig ==
    /\ run.entry = "main" /\ run.pc = "config"
    /\ LET Snapshot(rosdep_data, existing) ==
               /\ updater' = [live |-> TRUE, rosdep_data |-> rosdep_data,
                              baseline |-> IF existing.raised THEN None
                                           ELSE Some(existing.keys),
                              saves |-> 0]
               /\ run' = IF existing.raised THEN Exited(run, 1, "AttributeError")
                         ELSE [run EXCEPT !.pc = "analyze"]
           Loaded(rosdep_data) == Snapshot(rosdep_data, GetExistingPackages(rosdep_data))
       IN Loaded(LoadRosdepFile(rosdep_file))
    /\ UNCHANGED <<files, inputs, last, env, listing, tree>>

\* main: the call of analyze_organization_repositories with the keywords
\* it passes; a keyword the function does not bind is a TypeError.
MainAnalyze ==
    /\ run.entry = "main" /\ run.pc = "analyze"
    /\ LET repository_name == env["REPOSITORY_NAME"]
           keywords == IF EnvTruthy(repository_name)
                       THEN {"specific_repo", "existing_packages"}
                       ELSE {"existing_packages"}
       IN run' = IF ~(keywords \subseteq AnalyzeParams)
                 THEN Exited(run, 1, "TypeError")
                 ELSE [run EXCEPT !.pc = "list",
                                  !.specific_repo = IF EnvTruthy(repository_name)
                                                    THEN repository_name ELSE Unset]
    /\ UNCHANGED <<files, inputs, updater, last, env, listing, tree>>

\* The script of rosdep_updater.py: client = create_github_client(), and
\* nothing more without one.
ScriptStart ==
    /\ run.entry = "updater_script" /\ run.pc = "start"
    /\ LET client == CreateGithubClient(env)
       IN run' = IF ~client.some
                 THEN [Exited(run, 0, "no_client") EXCEPT !.rejected = TRUE]
                 ELSE [run EXCEPT !.client = client, !.pc = "list"]
    /\ UNCHANGED <<files, inputs, updater, last, env, listing, tree>>

\* analyze_organization_repositories, up to its loop: the repository asked
\* for, or the listing of the organization.
ListRepositories ==
    /\ run.pc = "list"
    /\ \E response \in ApiResponses :
        LET r == IF EnvTruthy(run.specific_repo)
                 THEN GetSpecificRepository(run.specific_repo.s, response)
                 ELSE GetOrganizationRepositories(response)
        IN run' = IF r.raised
                  THEN [Propagate(run, "RateLimitError") EXCEPT !.limited = TRUE]
                  ELSE [run EXCEPT !.pc = "repo", !.repositories = r.repositories]
    /\ UNCHANGED <<files, inputs, updater, last, env, listing, tree>>

\* One call of analyze_repository.  In the loop over the organization an
\* exception of the call is logged and the loop goes on; for the one
\* repository asked for nothing catches it.
AnalyzeNext ==
    /\ run.pc = "repo" /\ run.idx <= Len(run.repositories)
    /\ \E responses \in [1..3 -> ApiResponses] :
        LET r == AnalyzeRepository(run.repositories[run.idx], responses)
            began == [run EXCEPT !.analysed_after_limit = @ \/ run.limited,
                                 !.idx = @ + 1]
        IN run' = IF ~r.raised
                  THEN [began EXCEPT !.all_packages = @ \o r.packages]
                  ELSE IF EnvTruthy(run.specific_repo)
                  THEN [Propagate(began, "RateLimitError") EXCEPT !.limited = TRUE]
                  ELSE [began EXCEPT !.limited = TRUE]
    /\ UNCHANGED <<files, inputs, updater, last, env, listing, tree>>

\* From the return of analyze_organization_repositories to the exit: main
\* de-duplicates and passes its force flag, the script passes what it got.
Reconcile ==
    /\ run.pc = "repo" /\ run.idx > Len(run.repositories)
    /\ \E io \in IoOutcomes :
        LET is_main == run.entry = "main"
            Returned(to_update, r) ==
                /\ packages' = to_update
                /\ rosdep_file' = r.file
                /\ backup_file' = r.bak
                /\ last' = UpdateCall(r)
                /\ run' = [Exited(run,
                                  IF r.raised \/ (is_main /\ ~r.success) THEN 1 ELSE 0,
                                  IF r.raised THEN "AttributeError"
                                  ELSE IF is_main /\ ~r.success THEN "save_failed"
                                  ELSE "none")
                             EXCEPT !.written = (r.file # rosdep_file),
                                    !.save_failed = r.save_called /\ ~r.success]
            Unique(to_update) ==
                Returned(to_update,
                         UpdateRosdepWithPackages(to_update, rosdep_file, backup_file,
                                                  is_main /\ force_update,
                                                  manual_env, manual_file, io))
        IN IF run.all_packages = <<>>
           THEN /\ run' = Exited(run, 0, "none")
                /\ UNCHANGED <<files, packages, last>>
           ELSE Unique(IF is_main THEN GetUniquePackages(run.all_packages)
                       ELSE run.all_packages)
    /\ UNCHANGED <<manual_env, manual_file, force_update, updater, env, listing, tree>>

NextMain ==
    \/ MainStart \/ MainCreateClient \/ MainLoadConfig \/ MainAnalyze
    \/ ScriptStart \/ ListRepositories \/ AnalyzeNext \/ Reconcile

SpecMain == InitMain /\ [][NextMain]_vars

\* ------------------------------------------------- get_unique_packages alone

\* Repository names: "a", "ab" and "b", the first a prefix of the second.
DupRepos == {<<"a">>, <<"a", "b">>, <<"b">>}
DupPackages == {ROSPackage(n, r) : n \in {NameA, NameB}, r \in DupRepos}

InitUnique ==
    /\ rosdep_file = NoFile
    /\ backup_file = NoFile
    /\ manual_env = <<>>
    /\ manual_file = NoSidecar
    /\ packages \in SeqsUpTo(DupPackages, MaxDup)
    /\ force_update = FALSE
    /\ updater = NoUpdater
    /\ last = [op |-> "none"]
    /\ env = NoEnv
    /\ run = NoRun
    /\ listing = NoListing
    /\ tree = NoTree

\* analyzer.get_unique_packages(packages).
Unique ==
    /\ last' = [op |-> "unique", result |-> GetUniquePackages(packages)]
    /\ UNCHANGED <<files, inputs, updater, process>>

NextUnique == Unique

SpecUnique == InitUnique /\ [][NextUnique]_vars

\* ---------------------------------------------------------------- SpecClient
\* The calls of a GitHubAPI object, each against the answers the remote
\* gives to its requests; the listing advances one page at a time.

MaxPages == 2

TreeBody == Body("array", <<[key |-> "entry"]>>, "none", "none")
RepoBody == Body("object", <<[key |-> "name"], [key |-> "owner"]>>, "none", "none")
Answers(bodies) == Failures \cup {Http(200, FALSE, b) : b \in bodies}

InitClient ==
    /\ rosdep_file = NoFile
    /\ backup_file = NoFile
    /\ manual_env = <<>>
    /\ manual_file = NoFile
    /\ packages = <<>>
    /\ force_update = FALSE
    /\ updater = NoUpdater
    /\ last = [op |-> "none"]
    /\ env = NoEnv
    /\ run = NoRun
    /\ listing = NoListing
    /\ tree = NoTree

\* A call is made while no listing is under way: the client is used by one
\* thread.
Called(op, token, first, second, result) ==
    /\ listing.pc = "none"
    /\ last' = [op |-> op, token |-> token, first |-> first, second |-> second,
                raised |-> result.raised, sent |-> result.sent,
                value |-> IF op = "exists" THEN Absent ELSE result.value,
                exists |-> op = "exists" /\ result.value,
                error |-> IF op = "file" THEN result.error ELSE "none"]
    /\ UNCHANGED <<files, inputs, updater, process>>

CallContents ==
    \E token \in BOOLEAN, first, second \in Answers({TreeBody}) :
        Called("contents", token, first, second,
               GetRepositoryContentsHttp(token, first, second))

CallFile ==
    \E token \in BOOLEAN, first, second \in Answers(FileBodies) :
        Called("file", token, first, second, GetFileContentHttp(token, first, second))

CallRepository ==
    \E token \in BOOLEAN, first, second \in Answers({RepoBody}) :
        Called("repository", token, first, second,
               GetSpecificRepositoryHttp(token, first, second))

CallExists ==
    \E token \in BOOLEAN, first, second \in Answers({RepoBody}) :
        Called("exists", token, first, second, RepositoryExists(token, first, second))

\* get_organization_repositories is entered: lines 91-93.
ListStart ==
    /\ listing.pc = "none"
    /\ \E token \in BOOLEAN :
         /\ listing' = [pc |-> "loop", token |-> token, page |-> 1,
                        repositories |-> <<>>, requests |-> <<>>, received |-> <<>>,
                        first |-> Transport, second |-> Transport]
         /\ last' = [op |-> "list", token |-> token]
    /\ UNCHANGED <<files, inputs, updater, env, run, tree>>

Stepped(first, second, step) ==
    /\ listing' = [pc |-> step.pc, token |-> listing.token, page |-> step.page,
                   repositories |-> step.repositories,
                   requests |-> listing.requests \o step.requests,
                   received |-> IF step.used
                                THEN Append(listing.received, step.response)
                                ELSE listing.received,
                   first |-> first, second |-> second]
    /\ UNCHANGED <<files, inputs, updater, last, env, run, tree>>

\* One pass of the loop.
ListPage ==
    /\ listing.pc = "loop"
    /\ listing.page <= MaxPages
    /\ \E first, second \in PageResponses(listing.page) :
         Stepped(first, second,
                 ListPageStep(listing.token, listing.page, listing.repositories,
                              first, second))

NextClient ==
    \/ CallContents
    \/ CallFile
    \/ CallRepository
    \/ CallExists
    \/ ListStart
    \/ ListPage

SpecClient == InitClient /\ [][NextClient]_vars

\* ------------------------------------------------------------------ SpecScan
\* analyze_repository on every repository tree.

ScannedRepo == <<"a">>

InitScan ==
    /\ rosdep_file = NoFile
    /\ backup_file = NoFile
    /\ manual_env = <<>>
    /\ manual_file = NoFile
    /\ packages = <<>>
    /\ force_update = FALSE
    /\ updater = NoUpdater
    /\ last = [op |-> "none"]
    /\ env = NoEnv
    /\ run = NoRun
    /\ listing = NoListing
    /\ tree \in Trees

\* analyzer.analyze_repository(repository), the client holding a token.
Analyze ==
    /\ LET Returned(r) ==
               last' = [op |-> "analyze", raised |-> r.raised, error |-> r.error,
                        packages |-> r.packages]
       IN Returned(AnalyzeRepositoryTree(ScannedRepo, tree, TRUE))
    /\ UNCHANGED <<files, inputs, updater, process>>

NextScan == Analyze

SpecScan == InitScan /\ [][NextScan]_vars

\* -------------------------------------------------------------- properties

\* The keys of the entries a text holds.
EntryKeys(file) == {file.toks[i].k : i \in {j \in 1..Len(file.toks) : file.toks[j].t = "entry"}}

\* C1: a run of update_rosdep_with_packages on a configuration file that
\* exists leaves the file existing with its former content as a prefix.
C1_AppendOnly ==
    [][rosdep_file.ex =>
         rosdep_file'.ex /\ IsPrefix(rosdep_file.toks, rosdep_file'.toks)]_vars

\* A forced run loaded keys, added entries and appended them to the file.
C1_Witness ==
    /\ last.op = "update" /\ force_update
    /\ last.packages_added > 0
    /\ DOMAIN last.loaded.m # {}
    /\ Len(rosdep_file.toks) > 2 * Cardinality(DOMAIN last.loaded.m)

C4_Idempotent ==
    [][(last.op = "update" /\ ~last.raised /\ last.success) =>
         (rosdep_file' = rosdep_file /\ last'.packages_added = 0)]_vars

\* C5: once an API call of a run has met a rate-limit response, the run
\* analyses no further repository, does not write the configuration file,
\* and exits with a non-zero code.
C5_RateLimitStopsRun ==
    run.pc # "none" /\ run.limited =>
       /\ ~run.analysed_after_limit
       /\ ~run.written
       /\ (run.pc = "exited" => run.exit_code # 0)

\* C6: a run of main that had its credential, met no rate-limit response
\* and no failure of the save ends with exit code 0.
C6_ExitZeroOnSuccess ==
    (/\ run.pc = "exited" /\ run.entry = "main"
     /\ ~run.rejected /\ ~run.limited /\ ~run.save_failed)
       => run.exit_code = 0

\* The token variables holding a non-empty value, in the order of precedence.
PresentTokens == SelectSeq(TokenVars, LAMBDA n : EnvTruthy(env[n]))

\* C7: the token of a run's client is the value of the first of the four
\* variables that holds one, and a run is turned away for want of a
\* credential only when none of the four holds one.
C7_CredentialResolution ==
    run.pc # "none" =>
       /\ run.client.some =>
             (PresentTokens # <<>> /\ run.client.token = env[Head(PresentTokens)].s)
       /\ run.rejected => PresentTokens = <<>>

\* A step that is a call of save_rosdep_file.
SaveStep == updater.live /\ updater'.live /\ updater'.saves = updater.saves + 1

\* The keys of the entries the save of this step serializes: all of them in
\* a full rewrite, those outside the baseline in an append.
SavedKeys ==
    IF last'.append_only
    THEN (DOMAIN updater.rosdep_data.m) \ last'.original_packages.set
    ELSE DOMAIN updater.rosdep_data.m

\* An entry one of whose codenames maps to a string.
HasStringCodename(package_data) ==
    /\ package_data.ty = "map"
    /\ "ubuntu" \in DOMAIN package_data.m
    /\ package_data.m["ubuntu"].ty = "map"
    /\ \E d \in DOMAIN package_data.m["ubuntu"].m :
          package_data.m["ubuntu"].m[d].ty = "str"

\* C8: when an entry to be saved maps a codename to a string,
\* validate_yaml_syntax is False of the entries to be saved, and
\* save_rosdep_file returns False with the configuration file and the
\* backup file as they were, in an append and in a full rewrite.
C8_StringCodenameBlocksSave ==
    [][(/\ SaveStep
         /\ updater.rosdep_data.ty = "map"
         /\ (last'.append_only => last'.original_packages.some)
         /\ \E k \in SavedKeys : HasStringCodename(updater.rosdep_data.m[k]))
        => (/\ ~ValidateYamlSyntax(YMap(Restrict(updater.rosdep_data.m, SavedKeys)))
            /\ last'.ret = FALSE /\ ~last'.raised
            /\ rosdep_file' = rosdep_file
            /\ backup_file' = backup_file)]_vars

\* An append with backup on an existing file was refused: the document
\* holds, outside the baseline, an entry mapping a codename to a string.
C8_Witness ==
    /\ last.op = "save" /\ last.append_only /\ last.backup /\ last.io = "ok"
    /\ last.original_packages.some
    /\ ~last.ret
    /\ rosdep_file.ex /\ backup_file = NoFile
    /\ updater.rosdep_data.ty = "map"
    /\ \E k \in (DOMAIN updater.rosdep_data.m) \ last.original_packages.set :
          HasStringCodename(updater.rosdep_data.m[k])

\* C9: a save that writes the configuration file writes no entry with an
\* empty distribution list and none with an identifier lacking 'ros-'.
C9_SaveEnforcesPrefixAndNonEmpty ==
    [][(SaveStep /\ last'.ret /\ rosdep_file' # rosdep_file)
        => \A k \in SavedKeys :
              EntryIssues(updater.rosdep_data.m[k]).issues \cap {"empty", "non_ros"} = {}]_vars

\* C10: get_existing_packages never raises, and an updater constructed on a
\* file that is absent, unparseable or no mapping holds the empty mapping.
C10_LoadNeverCrashes ==
    /\ last.op = "get_existing" => ~last.raised
    /\ (/\ last.op = "init"
        /\ (~rosdep_file.ex \/ YamlLoad(rosdep_file.toks).ty # "map"))
          => updater.rosdep_data = EmptyDoc

\* The text one append of the entries added by the run of this step leaves.
AppendedOnce ==
    AppendedText(rosdep_file,
                 YamlDump(YMap(Restrict(last'.doc.m,
                                        (DOMAIN last'.doc.m) \ (DOMAIN last'.loaded.m)))))

\* C11: a run changes the configuration file by at most one append of the
\* entries it added; a run in which no record reaches the merge, or in
\* which add_ros_package returns False for each that does, returns success
\* and leaves the configuration file and the backup file as they were.
C11_PersistAtMostOnce ==
    [][(last'.op = "update" /\ ~last'.raised) =>
         /\ rosdep_file' # rosdep_file =>
               (last'.save_called /\ rosdep_file' = File(AppendedOnce))
         /\ (\A i \in 1..Len(last'.rets) : ~last'.rets[i]) =>
               /\ last'.success /\ last'.packages_added = 0
               /\ rosdep_file' = rosdep_file
               /\ backup_file' = backup_file]_vars

\* A forced run on an existing file whose only records were refused by
\* add_ros_package: nothing was saved and no backup exists.
C11_Witness ==
    /\ last.op = "update" /\ force_update /\ ~last.raised
    /\ last.to_add # <<>> /\ \A i \in 1..Len(last.rets) : ~last.rets[i]
    /\ last.success /\ ~last.save_called
    /\ rosdep_file.ex /\ backup_file = NoFile

\* C12: when a save with backup enabled changes a configuration file that
\* existed, the backup file afterwards holds what the configuration file
\* held before the call.
C12_BackupBeforeMutation ==
    [][(SaveStep /\ last'.backup /\ rosdep_file.ex /\ rosdep_file' # rosdep_file)
         => backup_file' = rosdep_file]_vars

\* An append with backup enabled extended an existing file: the backup is
\* a proper prefix of the file.
C12_Witness ==
    /\ last.op = "save" /\ last.backup /\ last.append_only /\ last.ret
    /\ backup_file.ex /\ rosdep_file.ex
    /\ backup_file # rosdep_file
    /\ IsPrefix(backup_file.toks, rosdep_file.toks)

\* C13: get_unique_packages returns input records, exactly one for each
\* name of the input, and the repository of the one it returns for a name
\* sorts before no repository of an input record of that name.
C13_DedupTieBreak ==
    last.op = "unique" =>
       /\ \A j \in 1..Len(packages) :
             Cardinality({i \in 1..Len(last.result) :
                            last.result[i].name = packages[j].name}) = 1
       /\ \A i \in 1..Len(last.result) :
             /\ \E j \in 1..Len(packages) : packages[j] = last.result[i]
             /\ \A j \in 1..Len(packages) :
                   packages[j].name = last.result[i].name =>
                      ~LexLess(last.result[i].repository, packages[j].repository)

\* The input held a name first from repository "ab", then from "b", then
\* from "a": "b" was kept.
C13_Witness ==
    /\ last.op = "unique"
    /\ packages = <<ROSPackage(NameA, <<"a", "b">>), ROSPackage(NameA, <<"b">>),
                    ROSPackage(NameA, <<"a">>)>>
    /\ last.result = <<ROSPackage(NameA, <<"b">>)>>

\* The name with a hyphen for each underscore.
Hyphenated(n) == [i \in DOMAIN n |-> IF n[i] = "_" THEN "-" ELSE n[i]]

\* C14: the entry add_ros_package has added for a record named N maps
\* "ubuntu" to two codenames, one listing ros-humble-N', the other
\* ros-jazzy-N' then ros-kilted-N', N' being N with hyphens for underscores.
C14_EntrySynthesis ==
    (last.op = "add" /\ last.ret) =>
       LET entry == updater.rosdep_data.m[last.package.name]
           ubuntu == entry.m["ubuntu"]
           dashed == Hyphenated(last.package.name)
       IN /\ entry.ty = "map" /\ DOMAIN entry.m = {"ubuntu"}
          /\ ubuntu.ty = "map" /\ DOMAIN ubuntu.m = {"jammy", "noble"}
          /\ ubuntu.m["jammy"] = YList(<<YStr(<<"ros-", "humble-">> \o dashed)>>)
          /\ ubuntu.m["noble"] =
                YList(<<YStr(<<"ros-", "jazzy-">> \o dashed),
                        YStr(<<"ros-", "kilted-">> \o dashed)>>)

\* add_ros_package has added the record named a_b.
C14_Witness ==
    /\ last.op = "add" /\ last.ret
    /\ last.package.name = NameAB
    /\ NameAB \in DOMAIN updater.rosdep_data.m

\* The first answer calls for the request without the token: 401 or 403,
\* not a rate limit, and a token is configured.
FallbackDue(token, first) ==
    token /\ ~first.transport /\ first.status \in {401, 403} /\ ~IsRateLimited(first)

\* An answer that is no success.
Failed(response) == response.transport \/ response.status # 200

\* The requests of the listing's last pass.
LastPass == {i \in 1..Len(listing.requests) :
               listing.requests[i].page = listing.requests[Len(listing.requests)].page}

\* C15: in every client call a first answer of 401 or 403 that is no rate
\* limit, with a token configured, is followed by exactly one more request
\* of the same call without the token, and no other answer is; when that
\* second request fails too the call raises or returns its absent or empty
\* result, and the failed answer's body is not taken as data.
C15_AuthFallback ==
    /\ last.op \in {"contents", "file", "repository", "exists"} =>
         /\ Len(last.sent) = IF FallbackDue(last.token, last.first) THEN 2 ELSE 1
         /\ last.sent[1] = last.token
         /\ Len(last.sent) = 2 => ~last.sent[2]
         /\ (Len(last.sent) = 2 /\ Failed(last.second)) =>
              \/ last.raised
              \/ IF last.op = "exists" THEN ~last.exists ELSE ~last.value.some
    /\ (listing.pc # "none" /\ listing.requests # <<>>) =>
         /\ Cardinality(LastPass) = IF FallbackDue(listing.token, listing.first) THEN 2 ELSE 1
         /\ Cardinality(LastPass) = 2 => ~listing.requests[Len(listing.requests)].authorized
         /\ (Cardinality(LastPass) = 2 /\ Failed(listing.second)) =>
              \/ listing.pc = "raised"
              \/ /\ listing.pc = "returned"
                 /\ \A i \in 1..Len(listing.received) : ~Failed(listing.received[i])

\* The answer a call ends with: that of the request without the token when
\* one was made.
FinalAnswer == IF Len(last.sent) = 2 THEN last.second ELSE last.first

\* C16: when no request of get_file_content meets a rate limit and the fetch
\* ends with a transport failure, a status that is no success, a body that is
\* not a file, or content that fails base64 or UTF-8 decoding, the call
\* returns the absent value and raises nothing.
C16_FileFetchFailuresAbsent ==
    (/\ last.op = "file"
     /\ ~IsRateLimited(last.first)
     /\ ~IsRateLimited(FinalAnswer)
     /\ \/ Failed(FinalAnswer)
        \/ FinalAnswer.body.kind # "object"
        \/ FinalAnswer.body.type # "file"
        \/ FinalAnswer.body.content # "text")
    => (~last.raised /\ ~last.value.some)

\* C17: after adds on a document whose baseline key set is B,
\* get_changes_summary(B) reports no removed package, the sorted current
\* keys that are not in B as added, total_packages_after =
\* total_packages_before + added_count, and net_change = added_count.
C17_ChangeSummary ==
    (last.op = "summary" /\ ~last.raised) =>
        /\ last.summary.removed_packages = <<>>
        /\ last.summary.removed_count = 0
        /\ last.summary.added_packages =
             SortedSeq(DOMAIN updater.rosdep_data.m \ last.original_packages)
        /\ last.summary.added_count = Len(last.summary.added_packages)
        /\ last.summary.total_packages_after =
             last.summary.total_packages_before + last.summary.added_count
        /\ last.summary.net_change = last.summary.added_count

C17_Witness ==
    /\ last.op = "summary"
    /\ ~last.raised
    /\ last.summary.total_packages_before >= 1
    /\ last.summary.added_count >= 1

\* C18: a run of main that logged the start banner has logged the end
\* banner when the process has exited, whatever the outcome.
C18_StartEndBanner ==
    (run.pc = "exited" /\ run.entry = "main" /\ run.start_banner) => run.end_banner

\* C19: a run of update_rosdep_with_packages writes the configuration file
\* only when every entry of the document in memory, loaded or added, passes
\* the structural validation (a mapping, with the platform key, every
\* codename a list, every identifier a string).
C19_ValidateBeforeWrite ==
    [][(last'.op = "update" /\ ~last'.raised /\ rosdep_file' # rosdep_file) =>
          \A k \in DOMAIN last'.doc.m : EntryValid(last'.doc.m[k])]_vars

\* The items of the bodies of a sequence of answers, in order.
RECURSIVE Concatenated(_)
Concatenated(answers) ==
    IF answers = <<>> THEN <<>>
    ELSE Head(answers).body.items \o Concatenated(Tail(answers))

\* An answer that is a page of the listing.
IsPage(response) == ~Failed(response)

\* C20: get_organization_repositories requests the pages 1, 2, 3, ... in
\* order; it goes on to the next page only after a full page, so that the
\* first page that is empty, shorter than the page size or lost to a
\* transport error is the last one requested; and it returns the pages it
\* received, concatenated in page order.
C20_Pagination ==
    listing.pc # "none" =>
        /\ \A i \in 1..Len(listing.requests) :
              IF i = 1 THEN listing.requests[i].page = 1
              ELSE \/ listing.requests[i].page = listing.requests[i - 1].page + 1
                   \/ /\ listing.requests[i].page = listing.requests[i - 1].page
                      /\ ~listing.requests[i].authorized
        /\ listing.pc = "loop" =>
              /\ Len(listing.received) = listing.page - 1
              /\ \A i \in 1..Len(listing.received) :
                    /\ IsPage(listing.received[i])
                    /\ Len(listing.received[i].body.items) = PerPage
        /\ listing.pc = "returned" =>
              listing.repositories = Concatenated(SelectSeq(listing.received, IsPage))

\* The depths whose package.xml ends in a record: CMakeLists.txt beside it,
\* its content fetched, its name a non-empty trimmed string.
Accepted ==
    {d \in DOMAIN tree :
        /\ tree[d].manifest.present
        /\ tree[d].cmake
        /\ tree[d].manifest.answer = TextAnswer
        /\ tree[d].manifest.xml.well_formed
        /\ Strip(tree[d].manifest.xml.name_text) # <<>>}

\* C21: analyze_repository returns one record for exactly the files named
\* package.xml, at any depth, that have CMakeLists.txt in their directory,
\* content that can be fetched and a name that is non-empty once trimmed;
\* another manifest is dropped and the rest is still processed.
C21_ManifestScanner ==
    last.op = "analyze" =>
        /\ ~last.raised
        /\ Len(last.packages) = Cardinality(Accepted)
        /\ \A d \in Accepted :
              \E i \in 1..Len(last.packages) :
                 last.packages[i] =
                    ROSPackageAt(Strip(tree[d].manifest.xml.name_text), ScannedRepo,
                                 Append(DirPath(d), "package.xml"))

\* An append-only save with a baseline wrote to a file that held text.
AppendStep ==
    /\ SaveStep
    /\ last'.append_only /\ last'.original_packages.some
    /\ rosdep_file.ex /\ rosdep_file.toks # <<>>
    /\ rosdep_file' # rosdep_file

\* What the step wrote after the former end of the file.
WrittenText ==
    SubSeq(rosdep_file'.toks, Len(rosdep_file.toks) + 1, Len(rosdep_file'.toks))

\* The newline that ends an unfinished last line.
LineEnd ==
    IF rosdep_file.toks[Len(rosdep_file.toks)] # NL THEN <<NL>> ELSE <<>>

\* The entries outside the baseline, each once, in alphabetical order.
NewEntriesText == DumpEntries(SortedSeq(SavedKeys), updater.rosdep_data.m)

\* C22: an append-only save onto a non-empty file writes, after the text
\* that was there, a newline if the file does not end in one and then the
\* serialization of the entries whose keys are not in the baseline, each
\* once and in alphabetical order.
C22_AppendSeparator ==
    [][AppendStep =>
         /\ IsPrefix(rosdep_file.toks, rosdep_file'.toks)
         /\ WrittenText = LineEnd \o NewEntriesText]_vars

\* C22, as the code has it: the newline that ends an unfinished last line
\* is followed by one more newline, which leaves an empty line between the
\* former text and the first new key.
C22_AppendSeparatorBlankLine ==
    [][AppendStep =>
         /\ IsPrefix(rosdep_file.toks, rosdep_file'.toks)
         /\ WrittenText = LineEnd \o <<NL>> \o NewEntriesText]_vars

\* An append with backup extended a file whose last line was unfinished.
C22_Witness ==
    /\ last.op = "save" /\ last.append_only /\ last.backup /\ last.ret
    /\ last.original_packages.some
    /\ backup_file.ex /\ backup_file.toks # <<>>
    /\ backup_file.toks[Len(backup_file.toks)] # NL
    /\ IsPrefix(backup_file.toks, rosdep_file.toks)
    /\ Len(rosdep_file.toks) >= Len(backup_file.toks) + 4

\* The request that fetched page p: the last one made for it.
FetchOf(p) ==
    listing.requests[CHOOSE i \in 1..Len(listing.requests) :
                        /\ listing.requests[i].page = p
                        /\ \A j \in (i + 1)..Len(listing.requests) :
                              listing.requests[j].page # p]

\* C23: the pages that make up the result of one call of
\* get_organization_repositories were all fetched with the same scope and
\* the same authentication: all with the token and type 'all', or all
\* without it and type 'public'.
C23_ListingScope ==
    listing.pc = "returned" =>
        \A p, q \in {k \in 1..Len(listing.received) :
                        listing.received[k].body.items # <<>>} :
            /\ FetchOf(p).authorized = FetchOf(q).authorized
            /\ FetchOf(p).type = FetchOf(q).type

====
